---- MODULE Spec2Model ----
(***************************************************************************)
(* Model of log_parser.py: parse_log_file (the four line recognizers and   *)
(* their payload fallbacks) and the seven view renderers.                  *)
(*                                                                         *)
(* A Python str is modelled as a sequence of lexemes (TLA+ strings): the   *)
(* empty str is <<>>, concatenation is \o, and a substring test for a      *)
(* lexeme is a search of the sequence.  A log line is the sequence of its  *)
(* lexemes; a regular expression is a sequence of lexeme classes.          *)
(***************************************************************************)
EXTENDS Integers, Sequences, FiniteSets, TLC

VARIABLES logs, idx, parsed_logs, pc, error, out

vars == <<logs, idx, parsed_logs, pc, error, out>>

(* Bounds of the model: the longest file over CoreLines and over AllLines. *)
MaxLines == 3
MaxEdgeLines == 2

---------------------------------------------------------------------------
(* Python values.  k is the Python type, v the str (for an int: its text). *)

Str(s) == [k |-> "str", v |-> s]

PyInt(text) == [k |-> "int", v |-> <<text>>]

TEXT == Str(<<"text">>)
JSON == Str(<<"json">>)
UDP_DATA == Str(<<"UDP_DATA">>)
UNKNOWN == Str(<<"unknown">>)

(* len(s) of a str: the characters of its lexemes. *)
RECURSIVE CharLen(_)
CharLen(s) == IF s = <<>> THEN 0 ELSE Len(Head(s)) + CharLen(Tail(s))

(* 'localhost' in x  (lines 145, 225, 248, 382): a substring test on a    *)
(* str, TypeError on an int.                                               *)
HasLocalhost(x) == \E i \in 1..Len(x.v) : x.v[i] = "localhost"

---------------------------------------------------------------------------
(* Payload texts that occur in the modelled log files. *)

T_gossip == "{\"type\":\"gossip\",\"payload\":1}"
T_ping == "{\"type\":\"ping\"}"
T_ack == "{\"type\":\"ack\"}"
T_auth == "{\"type\":\"auth\"}"
T_ack_env == "{\"sender\":\"node1\",\"message\":\"{\\\"type\\\":\\\"ack\\\"}\"}"
T_auth_env == "{\"sender\":\"node3\",\"message\":\"{\\\"type\\\":\\\"auth\\\"}\"}"
T_hello == "hello"
T_list == "[1]"
T_five == "5"
T_string == "\"type\""
T_empty_type == "{\"type\":\"\"}"
T_int_type == "{\"type\":5}"
T_bad_inner == "{\"sender\":\"node1\",\"message\":\"not json\"}"
T_int_message == "{\"sender\":\"node1\",\"message\":5}"
T_inner_five == "{\"sender\":\"node1\",\"message\":\"5\"}"
T_sender_only == "{\"sender\":\"node1\"}"
T_sender_self == "{\"sender\":\"node2\"}"
T_empty_sender == "{\"sender\":\"\"}"
T_int_sender == "{\"sender\":5}"
T_no_sender == "{\"message\":\"{}\"}"
T_empty_obj == "{}"

Dict(f) == [k |-> "dict", v |-> <<>>, items |-> f]

Decoded(val) == [ok |-> TRUE, val |-> val]

JSONDecodeError == [ok |-> FALSE, val |-> PyInt("0")]

(* json.loads on a str: the decoded value, or JSONDecodeError.  A dict is  *)
(* its key -> value function; a list keeps the texts of its items.         *)
json_loads(s) ==
    CASE s = <<T_gossip>> ->
           Decoded(Dict([key \in {"type", "payload"} |->
                           IF key = "type" THEN Str(<<"gossip">>) ELSE PyInt("1")]))
      [] s = <<T_ping>> -> Decoded(Dict([key \in {"type"} |-> Str(<<"ping">>)]))
      [] s = <<T_ack>> -> Decoded(Dict([key \in {"type"} |-> Str(<<"ack">>)]))
      [] s = <<T_auth>> -> Decoded(Dict([key \in {"type"} |-> Str(<<"auth">>)]))
      [] s = <<T_ack_env>> ->
           Decoded(Dict([key \in {"sender", "message"} |->
                           IF key = "sender" THEN Str(<<"node1">>) ELSE Str(<<T_ack>>)]))
      [] s = <<T_auth_env>> ->
           Decoded(Dict([key \in {"sender", "message"} |->
                           IF key = "sender" THEN Str(<<"node3">>) ELSE Str(<<T_auth>>)]))
      [] s = <<T_list>> -> Decoded([k |-> "list", v |-> <<"1">>])
      [] s = <<T_five>> -> Decoded(PyInt("5"))
      [] s = <<T_string>> -> Decoded(Str(<<"type">>))
      [] s = <<T_empty_type>> -> Decoded(Dict([key \in {"type"} |-> Str(<<>>)]))
      [] s = <<T_int_type>> -> Decoded(Dict([key \in {"type"} |-> PyInt("5")]))
      [] s = <<T_bad_inner>> ->
           Decoded(Dict([key \in {"sender", "message"} |->
                           IF key = "sender" THEN Str(<<"node1">>) ELSE Str(<<"not json">>)]))
      [] s = <<T_int_message>> ->
           Decoded(Dict([key \in {"sender", "message"} |->
                           IF key = "sender" THEN Str(<<"node1">>) ELSE PyInt("5")]))
      [] s = <<T_inner_five>> ->
           Decoded(Dict([key \in {"sender", "message"} |->
                           IF key = "sender" THEN Str(<<"node1">>) ELSE Str(<<T_five>>)]))
      [] s = <<T_sender_only>> -> Decoded(Dict([key \in {"sender"} |-> Str(<<"node1">>)]))
      [] s = <<T_sender_self>> -> Decoded(Dict([key \in {"sender"} |-> Str(<<"node2">>)]))
      [] s = <<T_empty_sender>> -> Decoded(Dict([key \in {"sender"} |-> Str(<<>>)]))
      [] s = <<T_int_sender>> -> Decoded(Dict([key \in {"sender"} |-> PyInt("5")]))
      [] s = <<T_no_sender>> -> Decoded(Dict([key \in {"message"} |-> Str(<<T_empty_obj>>)]))
      [] s = <<T_empty_obj>> -> Decoded(Dict([key \in {} |-> PyInt("0")]))
      [] OTHER -> JSONDecodeError

(* d.get(key, default) on a dict. *)
dict_get(d, key, default) == IF key \in DOMAIN d.items THEN d.items[key] ELSE default

---------------------------------------------------------------------------
(* Lexeme classes of the regular expressions (lines 13, 34, 59, 82). *)

NodeNames == {"node1", "node2"}

Digits == {"4000", "5000", "5"}

DotDigits == Digits \cup {"10.0.0.5", "10.0.0.9"}

TimeChars == DotDigits \cup {"12:00:00.000", "12:00:01.500", "12:00"}

Whitespace == {" "}

Lit(text) == [c |-> "lit", lit |-> text]

Class(name) == [c |-> name, lit |-> ""]

InClass(lexeme, p) ==
    CASE p.c = "lit" -> lexeme = p.lit
      [] p.c = "node" -> lexeme \in NodeNames
      [] p.c = "digits" -> lexeme \in Digits
      [] p.c = "dotdigits" -> lexeme \in DotDigits
      [] p.c = "timechars" -> lexeme \in TimeChars
      [] p.c = "direction" -> lexeme \in {"IN", "OUT"}
      [] p.c = "any" -> TRUE

\* ^(node\d+): Sending message to (node\d+): (.*)$
RE_SENDING ==
    <<Class("node"), Lit(": Sending message to "), Class("node"), Lit(": "), Class("any")>>

\* ^(node\d+): Received message from ([\d\.]+):\d+: (.*)$
RE_RECEIVED ==
    <<Class("node"), Lit(": Received message from "), Class("dotdigits"), Lit(":"),
      Class("digits"), Lit(": "), Class("any")>>

\* ^UDPTransport: Sending message to ([\d\.]+):(\d+): (.*)$
RE_UDP_SENDING ==
    <<Lit("UDPTransport"), Lit(": Sending message to "), Class("dotdigits"), Lit(":"),
      Class("digits"), Lit(": "), Class("any")>>

\* ^\[UDP_LOG\] \[(IN|OUT)\] \[([\d\.:]+)\] \[([\d]+)\] \[([\d\.]+):([\d]+)\] \[(.*)\]$
RE_UDP_LOG ==
    <<Lit("[UDP_LOG] ["), Class("direction"), Lit("] ["), Class("timechars"), Lit("] ["),
      Class("digits"), Lit("] ["), Class("dotdigits"), Lit(":"), Class("digits"),
      Lit("] ["), Class("any"), Lit("]")>>

(* re.search of an anchored pattern: the whole line, lexeme by lexeme. *)
re_search(pattern, log) ==
    /\ Len(log) = Len(pattern)
    /\ \A i \in 1..Len(pattern) : InClass(log[i], pattern[i])

(* str.strip(): leading and trailing whitespace removed. *)
RECURSIVE strip(_)
strip(s) ==
    IF s = <<>> THEN s
    ELSE IF Head(s) \in Whitespace THEN strip(Tail(s))
    ELSE IF s[Len(s)] \in Whitespace THEN strip(SubSeq(s, 1, Len(s) - 1))
    ELSE s

(* datetime.strptime(f'{today} {timestamp_str}', '%Y-%m-%d %H:%M:%S.%f'):  *)
(* milliseconds into today, or ValueError when the text is not H:M:S.f.    *)
strptime(timestamp_str) ==
    CASE timestamp_str = "12:00:00.000" -> [ok |-> TRUE, ms |-> 43200000]
      [] timestamp_str = "12:00:01.500" -> [ok |-> TRUE, ms |-> 43201500]
      [] OTHER -> [ok |-> FALSE, ms |-> 0]

---------------------------------------------------------------------------
(* One iteration of the loop of parse_log_file (lines 10-121): what the    *)
(* line appends to parsed_logs, or the exception that leaves the function. *)

Appended(rec) == [raised |-> "", append |-> <<rec>>]

Raised(exc) == [raised |-> exc, append |-> <<>>]

NoMatch == [raised |-> "", append |-> <<>>]

ExchangeRecord(source, destination, protocol, msg_type, info) ==
    [source |-> source, destination |-> destination, protocol |-> protocol,
     type |-> msg_type, info |-> info]

TimedRecord(timestamp, source, destination, protocol, msg_type, info) ==
    [timestamp |-> timestamp, source |-> source, destination |-> destination,
     protocol |-> protocol, type |-> msg_type, info |-> info]

(* Lines 14-31: '<node>: Sending message to <node>: <payload>'.  Only      *)
(* JSONDecodeError is caught; .get on a decoded non-dict is AttributeError. *)
sending_message(log) ==
    LET source == Str(<<log[1]>>)
        destination == Str(<<log[3]>>)
        message_str == <<log[5]>>
        message_json == json_loads(message_str)
    IN  IF ~message_json.ok
        THEN Appended(ExchangeRecord(source, destination, "P2P", TEXT, message_str))
        ELSE IF message_json.val.k /= "dict"
        THEN Raised("AttributeError")
        ELSE Appended(ExchangeRecord(source, destination, "P2P",
                                     dict_get(message_json.val, "type", JSON), message_str))

Thrown(exc) == [exc |-> exc, sender |-> UNKNOWN, msg_type |-> TEXT]

(* The body of the try of lines 40-43 and 64-67: the outer decode, the     *)
(* sender, the decode of the 'message' field (default '{}'), its type.     *)
(* json.loads of a non-str is TypeError; .get on a non-dict AttributeError. *)
nested_envelope(message_str) ==
    LET message_json == json_loads(message_str)
    IN  IF ~message_json.ok THEN Thrown("JSONDecodeError")
        ELSE IF message_json.val.k /= "dict" THEN Thrown("AttributeError")
        ELSE LET sender == dict_get(message_json.val, "sender", UNKNOWN)
                 message == dict_get(message_json.val, "message", Str(<<T_empty_obj>>))
             IN  IF message.k /= "str" THEN Thrown("TypeError")
                 ELSE LET message_content == json_loads(message.v)
                      IN  IF ~message_content.ok THEN Thrown("JSONDecodeError")
                          ELSE IF message_content.val.k /= "dict"
                          THEN Thrown("AttributeError")
                          ELSE [exc |-> "", sender |-> sender,
                                msg_type |-> dict_get(message_content.val, "type", JSON)]

(* except (json.JSONDecodeError, TypeError)  (lines 45, 68) *)
Caught == {"JSONDecodeError", "TypeError"}

(* received_except with the fallback source of the UDPTransport branch. *)
received_except_unknown(source_ip) == [msg_type |-> TEXT, source |-> UNKNOWN]

(* Lines 45-47: the except branch of the inbound peer message. *)
received_except(source_ip) == [msg_type |-> TEXT, source |-> Str(source_ip)]

(* Lines 68-70: the except branch of the UDPTransport message. *)
udp_sending_except == [msg_type |-> TEXT, source |-> UNKNOWN]

(* Lines 35-56: '<node>: Received message from <ip>:<port>: <payload>'. *)
received_message(log) ==
    LET destination == Str(<<log[1]>>)
        source_ip == <<log[3]>>
        message_str == <<log[7]>>
        e == nested_envelope(message_str)
        x == received_except(source_ip)
    IN  IF e.exc = ""
        THEN Appended(ExchangeRecord(e.sender, destination, "P2P", e.msg_type, message_str))
        ELSE IF e.exc \in Caught
        THEN Appended(ExchangeRecord(x.source, destination, "P2P", x.msg_type, message_str))
        ELSE Raised(e.exc)

(* Lines 60-79: 'UDPTransport: Sending message to <ip>:<port>: <payload>'. *)
udp_sending_message(log) ==
    LET destination == Str(<<log[3], ":", log[5]>>)
        message_str == <<log[7]>>
        e == nested_envelope(message_str)
        x == udp_sending_except
    IN  IF e.exc = ""
        THEN Appended(ExchangeRecord(e.sender, destination, "UDP", e.msg_type, message_str))
        ELSE IF e.exc \in Caught
        THEN Appended(ExchangeRecord(x.source, destination, "UDP", x.msg_type, message_str))
        ELSE Raised(e.exc)

(* udp_log_endpoints with the test of the direction inverted. *)
udp_log_endpoints_inverted(direction, local_port, remote_address, remote_port) ==
    IF direction /= "IN"
    THEN [source |-> Str(<<remote_address, ":", remote_port>>),
          destination |-> Str(<<"localhost", ":", local_port>>)]
    ELSE [source |-> Str(<<"localhost", ":", local_port>>),
          destination |-> Str(<<remote_address, ":", remote_port>>)]

(* Lines 95-103: the two sides of an instrumented datagram event. *)
udp_log_endpoints(direction, local_port, remote_address, remote_port) ==
    IF direction = "IN"
    THEN [source |-> Str(<<remote_address, ":", remote_port>>),
          destination |-> Str(<<"localhost", ":", local_port>>)]
    ELSE [source |-> Str(<<"localhost", ":", local_port>>),
          destination |-> Str(<<remote_address, ":", remote_port>>)]

(* Lines 105-111: the type of the preview.  Only JSONDecodeError is caught: *)
(* 'type' in <int> is TypeError, and so is <str or list>['type'].           *)
preview_type(message_preview) ==
    LET message_json == json_loads(message_preview)
        val == message_json.val
    IN  IF ~message_json.ok THEN [exc |-> "", msg_type |-> UDP_DATA]
        ELSE CASE val.k = "dict" ->
                    IF "type" \in DOMAIN val.items
                    THEN [exc |-> "", msg_type |-> val.items["type"]]
                    ELSE [exc |-> "", msg_type |-> UDP_DATA]
               [] val.k = "int" -> [exc |-> "TypeError", msg_type |-> UDP_DATA]
               [] val.k = "str" ->
                    IF \E i \in 1..Len(val.v) : val.v[i] = "type"
                    THEN [exc |-> "TypeError", msg_type |-> UDP_DATA]
                    ELSE [exc |-> "", msg_type |-> UDP_DATA]
               [] val.k = "list" ->
                    IF \E i \in 1..Len(val.v) : val.v[i] = T_string
                    THEN [exc |-> "TypeError", msg_type |-> UDP_DATA]
                    ELSE [exc |-> "", msg_type |-> UDP_DATA]

(* Lines 83-121: '[UDP_LOG] [IN|OUT] [<time>] [<port>] [<ip>:<port>] [<preview>]'. *)
(* strptime is outside any try: a time it cannot parse is a ValueError.     *)
udp_log(log) ==
    LET direction == log[2]
        timestamp_str == log[4]
        local_port == log[6]
        remote_address == log[8]
        remote_port == log[10]
        message_preview == <<log[12]>>
        timestamp == strptime(timestamp_str)
        ends == udp_log_endpoints(direction, local_port, remote_address, remote_port)
        t == preview_type(message_preview)
    IN  IF ~timestamp.ok THEN Raised("ValueError")
        ELSE IF t.exc /= "" THEN Raised(t.exc)
        ELSE Appended(TimedRecord(timestamp.ms, ends.source, ends.destination, "UDP",
                                  t.msg_type, message_preview))

(* Lines 11-121: the recognizers in their order; the first match wins. *)
parse_line(raw) ==
    LET log == strip(raw)
    IN  IF re_search(RE_SENDING, log) THEN sending_message(log)
        ELSE IF re_search(RE_RECEIVED, log) THEN received_message(log)
        ELSE IF re_search(RE_UDP_SENDING, log) THEN udp_sending_message(log)
        ELSE IF re_search(RE_UDP_LOG, log) THEN udp_log(log)
        ELSE NoMatch

Matches(raw) ==
    \E re \in {RE_SENDING, RE_RECEIVED, RE_UDP_SENDING, RE_UDP_LOG} : re_search(re, strip(raw))

---------------------------------------------------------------------------
(* The log files of the model. *)

SendingLine(src, dst, payload) == <<src, ": Sending message to ", dst, ": ", payload>>

ReceivedLine(dst, ip, port, payload) ==
    <<dst, ": Received message from ", ip, ":", port, ": ", payload>>

UdpSendingLine(ip, port, payload) ==
    <<"UDPTransport", ": Sending message to ", ip, ":", port, ": ", payload>>

UdpLogLine(direction, time, local_port, ip, port, preview) ==
    <<"[UDP_LOG] [", direction, "] [", time, "] [", local_port, "] [", ip, ":", port,
      "] [", preview, "]">>

(* The fourth line of the round-trip scenario as the specification writes  *)
(* it: the remote address and the remote port in brackets of their own.    *)
SplitUdpLogLine ==
    <<"[UDP_LOG] [", "IN", "] [", "12:00:00.000", "] [", "4000", "] [", "10.0.0.5", "] [",
      "5000", "] [", T_ping, "]">>

ScenarioLines ==
    <<SendingLine("node1", "node2", T_gossip),
      ReceivedLine("node2", "10.0.0.5", "4000", T_ack_env),
      UdpSendingLine("10.0.0.9", "5000", T_auth_env),
      SplitUdpLogLine>>

CoreLines ==
    {SendingLine("node1", "node2", T_gossip),
     ReceivedLine("node2", "10.0.0.5", "4000", T_ack_env),
     UdpSendingLine("10.0.0.9", "5000", T_auth_env),
     UdpLogLine("IN", "12:00:00.000", "4000", "10.0.0.5", "5000", T_ping),
     UdpLogLine("OUT", "12:00:01.500", "4000", "10.0.0.5", "5000", "ping"),
     SendingLine("node1", "node1", T_hello),
     <<"node1", " started">>}

EdgeLines ==
    {SendingLine("node1", "node2", p) :
        p \in {T_hello, T_sender_only, T_list, T_five, T_string, T_empty_type, T_int_type}}
    \cup {<<" ">> \o SendingLine("node2", "node1", T_ping) \o <<" ">>,
          SplitUdpLogLine}
    \cup {ReceivedLine("node2", "10.0.0.5", "4000", p) :
            p \in {T_hello, T_gossip, T_bad_inner, T_int_message, T_inner_five, T_sender_only,
                   T_sender_self, T_empty_sender, T_int_sender, T_no_sender, T_list}}
    \cup {UdpSendingLine("10.0.0.9", "5000", p) :
            p \in {T_hello, T_bad_inner, T_int_message, T_inner_five, T_sender_only,
                   T_empty_sender, T_int_sender, T_five}}
    \cup {UdpLogLine("OUT", "12:00", "4000", "10.0.0.5", "5000", "ping"),
          UdpLogLine("IN", "12:00:00.000", "4000", "10.0.0.5", "5000", T_five),
          UdpLogLine("OUT", "12:00:01.500", "4000", "10.0.0.5", "5000", T_string),
          UdpLogLine("IN", "12:00:01.500", "4000", "10.0.0.5", "5000", T_list),
          UdpLogLine("OUT", "12:00:00.000", "4000", "10.0.0.5", "5000", T_empty_type),
          UdpLogLine("IN", "12:00:00.000", "4000", "10.0.0.5", "5000", T_int_type)}

AllLines == CoreLines \cup EdgeLines

SeqsUpTo(S, n) == UNION {[1..m -> S] : m \in 0..n}

LogFiles ==
    SeqsUpTo(CoreLines, MaxLines) \cup SeqsUpTo(AllLines, MaxEdgeLines) \cup {ScenarioLines}

---------------------------------------------------------------------------
(* The view renderers.  A rendering is the sequence of the lines it emits; *)
(* a line is a record of the parts the code formats into it.  A renderer   *)
(* that returns a string emits nothing when it raises; print_wireshark_style *)
(* has printed its first lines by the time it raises.                      *)

Rendering(fn, raised, lines) == [fn |-> fn, raised |-> raised, lines |-> lines]

Line(kind) == [kind |-> kind]

(* set(source of each log + destination of each log)  (lines 204-207,      *)
(* 261-264, 324, 393). *)
unique_participants(plogs) ==
    {plogs[i].source : i \in 1..Len(plogs)} \cup {plogs[i].destination : i \in 1..Len(plogs)}

(* The strs that name participants, in the order of Python's str '<'. *)
StrOrder ==
    <<<<>>, <<"10.0.0.5">>, <<"10.0.0.5", ":", "5000">>, <<"10.0.0.9", ":", "5000">>,
      <<"localhost", ":", "4000">>, <<"node1">>, <<"node2">>, <<"node3">>, <<"unknown">>>>

(* sorted(list(participants)): '<' between an int and a str is TypeError. *)
sorted(S) ==
    IF \E p \in S, q \in S : p.k /= q.k
    THEN [exc |-> "TypeError", seq |-> <<>>]
    ELSE LET Among(s) == \E p \in S : p.v = s
         IN  [exc |-> "", seq |-> SelectSeq(StrOrder, Among)]

(* p.replace(':', '_').replace('.', '_')  (lines 212, 218, 219, 267). *)
replace_lexeme(lexeme) ==
    CASE lexeme = ":" -> "_"
      [] lexeme = "10.0.0.5" -> "10_0_0_5"
      [] lexeme = "10.0.0.9" -> "10_0_0_9"
      [] OTHER -> lexeme

replace(s) == [i \in 1..Len(s) |-> replace_lexeme(s[i])]

(* p.split(':')[-1]  (line 326): what follows the last ':'. *)
RECURSIVE last_part(_)
last_part(s) ==
    IF \E i \in 1..Len(s) : s[i] = ":" THEN last_part(Tail(s)) ELSE s

(* int(relative_time): seconds, truncated towards zero (line 177). *)
whole_seconds(ms) == IF ms >= 0 THEN ms \div 1000 ELSE -((-ms) \div 1000)

Max(a, b) == IF a >= b THEN a ELSE b

Min(a, b) == IF a <= b THEN a ELSE b

(* Lines 150-159. *)
color_code(msg_type, protocol) ==
    CASE msg_type = Str(<<"ack">>) -> "green"
      [] msg_type = Str(<<"gossip">>) -> "blue"
      [] msg_type = Str(<<"auth">>) -> "yellow"
      [] OTHER -> IF protocol = "UDP" THEN "dark gray" ELSE "reset"

(* Lines 188-195. *)
glyph(event_type) ==
    CASE event_type = Str(<<"ack">>) -> "A"
      [] event_type = Str(<<"gossip">>) -> "G"
      [] event_type = Str(<<"auth">>) -> "H"
      [] OTHER -> "."

(* Lines 137-161: the rows.  log['timestamp'] of a record without the key  *)
(* is KeyError; the rows before it are printed.                            *)
RECURSIVE wireshark_rows(_, _, _, _)
wireshark_rows(plogs, i, start_time, acc) ==
    IF i > Len(plogs) THEN acc
    ELSE LET log == plogs[i]
         IN  IF "timestamp" \notin DOMAIN log
             THEN [acc EXCEPT !.raised = "KeyError"]
             ELSE IF log.destination.k /= "str"
             THEN [acc EXCEPT !.raised = "TypeError"]
             ELSE wireshark_rows(plogs, i + 1, start_time,
                    [raised |-> "",
                     in_count |-> acc.in_count + (IF HasLocalhost(log.destination) THEN 1 ELSE 0),
                     out_count |-> acc.out_count + (IF HasLocalhost(log.destination) THEN 0 ELSE 1),
                     lines |-> Append(acc.lines,
                                [kind |-> "row", time |-> log.timestamp - start_time,
                                 source |-> log.source, destination |-> log.destination,
                                 protocol |-> log.protocol, type |-> log.type,
                                 color |-> color_code(log.type, log.protocol),
                                 info |-> log.info, shown |-> Min(CharLen(log.info), 50)])])

(* Lines 174-196: one line per second from 0 to the last one that has a    *)
(* record, with a glyph per record of that second.                         *)
timeline(plogs, start_time) ==
    LET interval(i) == whole_seconds(plogs[i].timestamp - start_time)
        max_interval == CHOOSE m \in {interval(i) : i \in 1..Len(plogs)} :
                            \A i \in 1..Len(plogs) : interval(i) <= m
        InSecond(n) == SelectSeq([i \in 1..Len(plogs) |-> i], LAMBDA i : interval(i) = n)
    IN  [n \in 1..(max_interval + 1) |->
            [kind |-> "second", n |-> n - 1,
             glyphs |-> [j \in 1..Len(InSecond(n - 1)) |-> glyph(plogs[InSecond(n - 1)[j]].type)]]]

(* Lines 124-197. *)
print_wireshark_style(plogs) ==
    IF plogs = <<>> THEN Rendering("print_wireshark_style", "", <<Line("No logs to display.")>>)
    ELSE LET heading == <<Line("columns"), Line("rule")>>
         IN  IF "timestamp" \notin DOMAIN plogs[1]
             THEN Rendering("print_wireshark_style", "KeyError", heading)
             ELSE LET start_time == plogs[1].timestamp
                      rows == wireshark_rows(plogs, 1, start_time,
                                [raised |-> "", in_count |-> 0, out_count |-> 0, lines |-> <<>>])
                  IN  IF rows.raised /= ""
                      THEN Rendering("print_wireshark_style", rows.raised, heading \o rows.lines)
                      ELSE Rendering("print_wireshark_style", "",
                             heading \o rows.lines
                             \o <<Line("rule"),
                                  [kind |-> "Total Packets", n |-> Len(plogs)],
                                  [kind |-> "Incoming Packets", n |-> rows.in_count],
                                  [kind |-> "Outgoing Packets", n |-> rows.out_count],
                                  Line("rule"), Line("Time Plot"), Line("rule")>>
                             \o timeline(plogs, start_time) \o <<Line("rule")>>)

(* 'localhost' in log['source'] for every record (lines 225, 248, 382):    *)
(* TypeError when a source is an int.                                      *)
SourcesAreStr(plogs) == \A i \in 1..Len(plogs) : plogs[i].source.k = "str"

(* Lines 199-235. *)
generate_sequence_diagram_plantuml(plogs) ==
    LET fn == "generate_sequence_diagram_plantuml"
        participants == sorted(unique_participants(plogs))
        arrow(log) ==
            [kind |-> "arrow", sender |-> replace(log.source.v),
             arrow |-> IF HasLocalhost(log.source) THEN "->" ELSE "<-",
             receiver |-> replace(log.destination.v), type |-> log.type,
             info |-> log.info, shown |-> Min(CharLen(log.info), 30),
             dots |-> CharLen(log.info) > 30]
    IN  IF participants.exc /= "" THEN Rendering(fn, participants.exc, <<>>)
        ELSE Rendering(fn, "",
               <<Line("@startuml"), Line("skinparam")>>
               \o [j \in 1..Len(participants.seq) |->
                     [kind |-> "participant", name |-> replace(participants.seq[j])]]
               \o <<Line("")>>
               \o [i \in 1..Len(plogs) |-> arrow(plogs[i])]
               \o <<Line("@enduml")>>)

(* Lines 237-257. *)
generate_activity_diagram_plantuml(plogs) ==
    LET fn == "generate_activity_diagram_plantuml"
    IN  IF ~SourcesAreStr(plogs) THEN Rendering(fn, "TypeError", <<>>)
        ELSE Rendering(fn, "",
               <<Line("@startuml"), Line("skinparam"), Line("start")>>
               \o [i \in 1..Len(plogs) |->
                     [kind |-> "activity",
                      host |-> IF HasLocalhost(plogs[i].source) THEN "Local Host" ELSE "Remote Host",
                      type |-> plogs[i].type, n |-> i - 1]]
               \o <<Line("stop"), Line("@enduml")>>)

(* f"Sent_{log['type']}_{i}" and f"Received_{log['type']}_{i}". *)
state_name(prefix, log, i) == <<prefix>> \o log.type.v \o <<"_", ToString(i)>>

(* state_step with 'if' in place of 'elif' and the destination tested      *)
(* first: a record from a participant to itself is taken as received.      *)
state_step_destination_first(participant, log, i) ==
    IF log.destination = participant
    THEN [moves |-> TRUE, event |-> <<"Receives ">> \o log.type.v,
          new_state |-> state_name("Received_", log, i)]
    ELSE IF log.source = participant
    THEN [moves |-> TRUE, event |-> <<"Sends ">> \o log.type.v,
          new_state |-> state_name("Sent_", log, i)]
    ELSE [moves |-> FALSE, event |-> <<>>, new_state |-> <<>>]

(* Lines 273-284 and 401-410: the transition a record makes in the trace   *)
(* of a participant; i counts the records from 0.                          *)
state_step(participant, log, i) ==
    IF log.source = participant
    THEN [moves |-> TRUE, event |-> <<"Sends ">> \o log.type.v,
          new_state |-> state_name("Sent_", log, i)]
    ELSE IF log.destination = participant
    THEN [moves |-> TRUE, event |-> <<"Receives ">> \o log.type.v,
          new_state |-> state_name("Received_", log, i)]
    ELSE [moves |-> FALSE, event |-> <<>>, new_state |-> <<>>]

(* Lines 271-285 and 398-411: the trace of one participant, from the       *)
(* record at position pos on, and its last line.                           *)
RECURSIVE state_lines(_, _, _, _)
state_lines(participant, plogs, pos, current_state) ==
    IF pos > Len(plogs) THEN <<[kind |-> "final", from |-> current_state]>>
    ELSE LET step == state_step(participant, plogs[pos], pos - 1)
         IN  IF step.moves
             THEN <<[kind |-> "transition", from |-> current_state,
                     event |-> step.event, to |-> step.new_state]>>
                  \o state_lines(participant, plogs, pos + 1, step.new_state)
             ELSE state_lines(participant, plogs, pos + 1, current_state)

RECURSIVE SeqConcat(_)
SeqConcat(ss) == IF ss = <<>> THEN <<>> ELSE Head(ss) \o SeqConcat(Tail(ss))

(* Lines 259-289: one document per participant. *)
generate_state_diagram_plantuml(plogs) ==
    LET fn == "generate_state_diagram_plantuml"
        participants == sorted(unique_participants(plogs))
        document(p) ==
            <<[kind |-> "@startuml State Diagram", name |-> replace(p)],
              Line("skinparam"), Line("[*] --> Idle")>>
            \o state_lines(Str(p), plogs, 1, <<"Idle">>)
            \o <<Line("@enduml"), Line("separator")>>
    IN  IF participants.exc /= "" THEN Rendering(fn, participants.exc, <<>>)
        ELSE Rendering(fn, "",
               SeqConcat([j \in 1..Len(participants.seq) |-> document(participants.seq[j])]))

(* Lines 319-374.  A column is 15 wide; a header cell is as wide as its    *)
(* name when the name is longer.                                           *)
generate_ascii_sequence_diagram(plogs) ==
    LET fn == "generate_ascii_sequence_diagram"
        participants == sorted(unique_participants(plogs))
        col(p) == 15 * ((CHOOSE j \in 1..Len(participants.seq) : participants.seq[j] = p.v) - 1)
        names == [j \in 1..Len(participants.seq) |-> last_part(participants.seq[j])]
        RECURSIVE width(_)
        width(j) == IF j = 0 THEN 0 ELSE width(j - 1) + Max(15, CharLen(names[j]))
        message(log) ==
            LET sender_col == col(log.source)
                receiver_col == col(log.destination)
            IN  [kind |-> "message", sender_col |-> sender_col, receiver_col |-> receiver_col,
                 head |-> IF sender_col < receiver_col THEN ">"
                          ELSE IF sender_col = receiver_col THEN "|" ELSE "<",
                 text_at |-> Min(sender_col, receiver_col) + 1,
                 type |-> log.type, width |-> Max(sender_col, receiver_col) + 15]
    IN  IF participants.exc /= "" THEN Rendering(fn, participants.exc, <<>>)
        ELSE Rendering(fn, "",
               <<Line("ASCII Sequence Diagram:"), Line("dashes"),
                 [kind |-> "header", names |-> names, width |-> width(Len(names))],
                 [kind |-> "underline", width |-> width(Len(names))]>>
               \o [i \in 1..Len(plogs) |-> message(plogs[i])]
               \o <<Line("dashes")>>)

(* Lines 376-386. *)
generate_ascii_activity_flow(plogs) ==
    LET fn == "generate_ascii_activity_flow"
    IN  IF ~SourcesAreStr(plogs) THEN Rendering(fn, "TypeError", <<>>)
        ELSE Rendering(fn, "",
               <<Line("ASCII Activity Flow:"), Line("dashes")>>
               \o [i \in 1..Len(plogs) |->
                     [kind |-> "activity", n |-> i - 1,
                      direction |-> IF HasLocalhost(plogs[i].source) THEN "OUT" ELSE "IN",
                      type |-> plogs[i].type, source |-> plogs[i].source,
                      destination |-> plogs[i].destination]]
               \o <<Line("dashes")>>)

(* Lines 388-414. *)
generate_ascii_state_flow(plogs) ==
    LET fn == "generate_ascii_state_flow"
        participants == sorted(unique_participants(plogs))
        section(p) ==
            <<[kind |-> "Participant", name |-> p], Line("Initial State: Idle")>>
            \o state_lines(Str(p), plogs, 1, <<"Idle">>)
    IN  IF participants.exc /= "" THEN Rendering(fn, participants.exc, <<>>)
        ELSE Rendering(fn, "",
               <<Line("ASCII State Flow (per participant):"), Line("dashes")>>
               \o SeqConcat([j \in 1..Len(participants.seq) |-> section(participants.seq[j])])
               \o <<Line("dashes")>>)

---------------------------------------------------------------------------
NoOutput == [fn |-> "none", raised |-> "", lines |-> <<>>]

Init ==
    /\ logs \in LogFiles
    /\ idx = 0
    /\ parsed_logs = <<>>
    /\ pc = "parsing"
    /\ error = ""
    /\ out = NoOutput

(* One iteration of 'for log in logs' (lines 10-121). *)
ParseLine ==
    /\ pc = "parsing"
    /\ idx < Len(logs)
    /\ LET r == parse_line(logs[idx + 1])
       IN  IF r.raised /= ""
           THEN /\ pc' = "raised"
                /\ error' = r.raised
                /\ UNCHANGED <<idx, parsed_logs>>
           ELSE /\ idx' = idx + 1
                /\ parsed_logs' = parsed_logs \o r.append
                /\ UNCHANGED <<pc, error>>
    /\ UNCHANGED <<logs, out>>

(* return parsed_logs (line 123). *)
ParseReturn ==
    /\ pc = "parsing"
    /\ idx = Len(logs)
    /\ pc' = "returned"
    /\ UNCHANGED <<logs, idx, parsed_logs, error, out>>

(* A view of the returned records (lines 423-435 call four of the seven;  *)
(* each is a function of the records alone and may be called in any order). *)
PrintWiresharkStyle ==
    /\ pc = "returned"
    /\ out' = print_wireshark_style(parsed_logs)
    /\ UNCHANGED <<logs, idx, parsed_logs, pc, error>>

GenerateSequenceDiagramPlantuml ==
    /\ pc = "returned"
    /\ out' = generate_sequence_diagram_plantuml(parsed_logs)
    /\ UNCHANGED <<logs, idx, parsed_logs, pc, error>>

GenerateActivityDiagramPlantuml ==
    /\ pc = "returned"
    /\ out' = generate_activity_diagram_plantuml(parsed_logs)
    /\ UNCHANGED <<logs, idx, parsed_logs, pc, error>>

GenerateStateDiagramPlantuml ==
    /\ pc = "returned"
    /\ out' = generate_state_diagram_plantuml(parsed_logs)
    /\ UNCHANGED <<logs, idx, parsed_logs, pc, error>>

GenerateAsciiSequenceDiagram ==
    /\ pc = "returned"
    /\ out' = generate_ascii_sequence_diagram(parsed_logs)
    /\ UNCHANGED <<logs, idx, parsed_logs, pc, error>>

GenerateAsciiActivityFlow ==
    /\ pc = "returned"
    /\ out' = generate_ascii_activity_flow(parsed_logs)
    /\ UNCHANGED <<logs, idx, parsed_logs, pc, error>>

GenerateAsciiStateFlow ==
    /\ pc = "returned"
    /\ out' = generate_ascii_state_flow(parsed_logs)
    /\ UNCHANGED <<logs, idx, parsed_logs, pc, error>>

Next ==
    \/ ParseLine
    \/ ParseReturn
    \/ PrintWiresharkStyle
    \/ GenerateSequenceDiagramPlantuml
    \/ GenerateActivityDiagramPlantuml
    \/ GenerateStateDiagramPlantuml
    \/ GenerateAsciiSequenceDiagram
    \/ GenerateAsciiActivityFlow
    \/ GenerateAsciiStateFlow

Spec == Init /\ [][Next]_vars

---------------------------------------------------------------------------
(* Properties. *)

Last(s) == s[Len(s)]

(* The line whose iteration has just completed, stripped.  When it matches *)
(* a recognizer, the last record of parsed_logs is the one it appended.    *)
DoneLine == strip(logs[idx])

(* The payload a matching line carries. *)
PayloadOf(raw) ==
    LET log == strip(raw)
    IN  IF re_search(RE_UDP_LOG, log) THEN <<log[12]>> ELSE <<Last(log)>>

TypesOf(plogs) == [i \in 1..Len(plogs) |-> plogs[i].type]

(* C1: the four literal lines of the round-trip scenario yield exactly     *)
(* four records of types gossip, ack, auth, ping, in that order, and       *)
(* print_wireshark_style on them reports Total Packets: 4.                 *)
C1_RoundTrip ==
    logs = ScenarioLines =>
        /\ pc /= "raised"
        /\ pc = "returned" =>
              TypesOf(parsed_logs) =
                  <<Str(<<"gossip">>), Str(<<"ack">>), Str(<<"auth">>), Str(<<"ping">>)>>
        /\ out.fn = "print_wireshark_style" =>
              /\ out.raised = ""
              /\ \E i \in 1..Len(out.lines) :
                    out.lines[i] = [kind |-> "Total Packets", n |-> 4]

(* C2: an inbound peer line whose payload decodes to an object with sender *)
(* "X" gives a record whose source is X and not the transport address,     *)
(* whatever the message field holds.                                       *)
C2_SenderIsSource ==
    (idx > 0 /\ re_search(RE_RECEIVED, DoneLine)) =>
        LET d == json_loads(PayloadOf(logs[idx]))
        IN  (d.ok /\ d.val.k = "dict" /\ "sender" \in DOMAIN d.val.items
                  /\ d.val.items["sender"].k = "str") =>
                /\ Last(parsed_logs).source = d.val.items["sender"]
                /\ Last(parsed_logs).source /= Str(<<DoneLine[3]>>)

UndecodableEnvelope(re) ==
    /\ idx > 0
    /\ re_search(re, DoneLine)
    /\ ~json_loads(PayloadOf(logs[idx])).ok

(* C3 as stated: an inbound peer line or an outbound UDPTransport line     *)
(* whose outer payload fails to decode gives a record whose source is the  *)
(* transport-level address captured from the line and whose type is text.  *)
C3_TransportAddressFallback ==
    \A re \in {RE_RECEIVED, RE_UDP_SENDING} :
        UndecodableEnvelope(re) =>
            /\ Last(parsed_logs).source
                   \in {Str(<<DoneLine[3]>>), Str(<<DoneLine[3], ":", DoneLine[5]>>)}
            /\ Last(parsed_logs).type = TEXT

(* C3 as amended: an inbound peer line whose outer payload is not valid    *)
(* JSON gives source = the IP address captured from the line and type      *)
(* text; an outbound UDPTransport line whose outer payload is not valid    *)
(* JSON gives source = 'unknown' and type text.                            *)
C3_FallbackPerRecognizer ==
    /\ UndecodableEnvelope(RE_RECEIVED) =>
          /\ Last(parsed_logs).source = Str(<<DoneLine[3]>>)
          /\ Last(parsed_logs).type = TEXT
    /\ UndecodableEnvelope(RE_UDP_SENDING) =>
          /\ Last(parsed_logs).source = Str(<<"unknown">>)
          /\ Last(parsed_logs).type = TEXT

C3_Witness ==
    /\ idx = 2
    /\ re_search(RE_RECEIVED, strip(logs[1]))
    /\ ~json_loads(PayloadOf(logs[1])).ok
    /\ UndecodableEnvelope(RE_UDP_SENDING)
    /\ Len(parsed_logs) = 2

(* C4: whatever the payload of a matching line is, parse_log_file does not *)
(* raise: the only exception left is that of a time strptime cannot parse. *)
C4_DecodeFailureAbsorbed ==
    pc = "raised" =>
        /\ re_search(RE_UDP_LOG, strip(logs[idx + 1]))
        /\ ~strptime(strip(logs[idx + 1])[4]).ok

(* The lines parse_log_file has dealt with: those whose iteration is over  *)
(* and, when an exception ended it, the line that raised.                  *)
Processed == SubSeq(logs, 1, IF pc = "raised" THEN idx + 1 ELSE idx)

WellTimed(raw) == re_search(RE_UDP_LOG, strip(raw)) => strptime(strip(raw)[4]).ok

(* C5: the records are, in order, one per line that matches one of the     *)
(* four grammars (identical lines included) and none for any other line.   *)
C5_OrderPreserved ==
    (\A i \in 1..Len(Processed) : WellTimed(Processed[i])) =>
        LET matched == SelectSeq(Processed, Matches)
        IN  [i \in 1..Len(parsed_logs) |-> parsed_logs[i].info]
                = [i \in 1..Len(matched) |-> PayloadOf(matched[i])]

(* C6: every record has a non-empty source, destination and type. *)
C6_FieldsNonEmpty ==
    \A i \in 1..Len(parsed_logs) :
        /\ parsed_logs[i].source.v /= <<>>
        /\ parsed_logs[i].destination.v /= <<>>
        /\ parsed_logs[i].type.v /= <<>>

(* C7: the record of a [UDP_LOG] line with direction IN has destination    *)
(* localhost:<local-port> and source <remote-ip>:<remote-port>; with       *)
(* direction OUT the two are exchanged; exactly one side of every such     *)
(* record contains 'localhost'.                                            *)
C7_LocalSide ==
    /\ (idx > 0 /\ re_search(RE_UDP_LOG, DoneLine)) =>
          LET local == Str(<<"localhost", ":", DoneLine[6]>>)
              remote == Str(<<DoneLine[8], ":", DoneLine[10]>>)
              r == Last(parsed_logs)
          IN  /\ DoneLine[2] = "IN" => (r.destination = local /\ r.source = remote)
              /\ DoneLine[2] = "OUT" => (r.source = local /\ r.destination = remote)
    /\ \A i \in 1..Len(parsed_logs) :
          "timestamp" \in DOMAIN parsed_logs[i] =>
              HasLocalhost(parsed_logs[i].source) /= HasLocalhost(parsed_logs[i].destination)

C7_Witness ==
    /\ idx = 2
    /\ Len(parsed_logs) = 2
    /\ re_search(RE_UDP_LOG, strip(logs[1]))
    /\ re_search(RE_UDP_LOG, strip(logs[2]))
    /\ strip(logs[1])[2] = "OUT"
    /\ strip(logs[2])[2] = "IN"

DiagramRenderers ==
    {"generate_sequence_diagram_plantuml", "generate_activity_diagram_plantuml",
     "generate_state_diagram_plantuml", "generate_ascii_sequence_diagram",
     "generate_ascii_activity_flow", "generate_ascii_state_flow"}

RecordLines == {"row", "arrow", "activity", "message", "transition", "final", "participant",
                "Participant"}

(* C8: on the empty record sequence no renderer fails, and every diagram   *)
(* renderer emits its opening and its closing delimiter with no record     *)
(* line between them.                                                      *)
C8_EmptyDocument ==
    (pc = "returned" /\ parsed_logs = <<>> /\ out.fn /= "none") =>
        /\ out.raised = ""
        /\ out.fn \in DiagramRenderers =>
              /\ Len(out.lines) >= 2
              /\ out.lines[1].kind
                     \in {"@startuml", "@startuml State Diagram", "ASCII Sequence Diagram:",
                          "ASCII Activity Flow:", "ASCII State Flow (per participant):"}
              /\ Last(out.lines).kind \in {"@enduml", "dashes"}
              /\ \A i \in 1..Len(out.lines) : out.lines[i].kind \notin RecordLines

RowsOf(lines) == SelectSeq(lines, LAMBDA l : l.kind = "row")

Count(lines, kind) ==
    LET found == SelectSeq(lines, LAMBDA l : l.kind = kind)
    IN  IF Len(found) = 1 THEN found[1].n ELSE -1

(* C9: on any non-empty record sequence of the pipeline, records without a *)
(* timestamp included, print_wireshark_style completes with one row per    *)
(* record in order, the relative time being the offset from the first      *)
(* record's timestamp and 0 where the timestamp is absent, and a summary   *)
(* with Total = the number of records and Incoming + Outgoing = Total.     *)
C9_TabularTrace ==
    (out.fn = "print_wireshark_style" /\ parsed_logs /= <<>>) =>
        LET rows == RowsOf(out.lines)
            timed(i) == "timestamp" \in DOMAIN parsed_logs[i]
        IN  /\ out.raised = ""
            /\ Len(rows) = Len(parsed_logs)
            /\ \A i \in 1..Len(rows) :
                  /\ rows[i].source = parsed_logs[i].source
                  /\ rows[i].destination = parsed_logs[i].destination
                  /\ rows[i].time = IF timed(i) /\ timed(1)
                                    THEN parsed_logs[i].timestamp - parsed_logs[1].timestamp
                                    ELSE 0
            /\ Count(out.lines, "Total Packets") = Len(parsed_logs)
            /\ Count(out.lines, "Incoming Packets")
                   = Cardinality({i \in 1..Len(parsed_logs) :
                                      HasLocalhost(parsed_logs[i].destination)})
            /\ Count(out.lines, "Incoming Packets") + Count(out.lines, "Outgoing Packets")
                   = Len(parsed_logs)

StateRenderers == {"generate_state_diagram_plantuml", "generate_ascii_state_flow"}

(* Where the trace of participant p starts in a state rendering: after the *)
(* heading of p and the lines that put it in Idle.                         *)
TraceStart(p) ==
    IF out.fn = "generate_ascii_state_flow"
    THEN 2 + CHOOSE h \in 1..Len(out.lines) :
                 out.lines[h] = [kind |-> "Participant", name |-> p.v]
    ELSE 3 + CHOOSE h \in 1..Len(out.lines) :
                 out.lines[h] = [kind |-> "@startuml State Diagram", name |-> replace(p.v)]

(* The records that involve p, by position, in record order. *)
Involving(p) ==
    SelectSeq([i \in 1..Len(parsed_logs) |-> i],
              LAMBDA i : parsed_logs[i].source = p \/ parsed_logs[i].destination = p)

(* The state the record at position i puts p in: Sent or Received, the     *)
(* type, and the index of the record counted from 0.                       *)
StateOf(p, i) ==
    <<IF parsed_logs[i].source = p THEN "Sent_" ELSE "Received_">>
    \o parsed_logs[i].type.v \o <<"_", ToString(i - 1)>>

TraceAsClaimed(p) ==
    LET start == TraceStart(p)
        at == Involving(p)
        n == Len(at)
    IN  /\ out.lines[start - 1].kind \in {"Initial State: Idle", "[*] --> Idle"}
        /\ start + n <= Len(out.lines)
        /\ \A j \in 1..n :
              /\ out.lines[start + j - 1].kind = "transition"
              /\ out.lines[start + j - 1].from
                     = IF j = 1 THEN <<"Idle">> ELSE StateOf(p, at[j - 1])
              /\ out.lines[start + j - 1].to = StateOf(p, at[j])
        /\ out.lines[start + n] = [kind |-> "final", from |-> StateOf(p, at[n])]
        /\ start + n < Len(out.lines) =>
              out.lines[start + n + 1].kind \notin {"transition", "final"}
        /\ \A j, k \in 1..n :
              j /= k => out.lines[start + j - 1].to /= out.lines[start + k - 1].to

====
